---- MODULE Spec2Model ----
(***************************************************************************)
(* Model of two components of the repository:                              *)
(*   - elements-fun/src/confidential.rs : the tagged 33-byte commitment    *)
(*     types generated by impl_confidential_commitment!                    *)
(*   - src/bip143.rs : SigHashCache, the lazily cached segwit-style        *)
(*     signature-hash preimage builder                                     *)
(* A byte is an integer in 0..255, a byte string a sequence of bytes.      *)
(***************************************************************************)
EXTENDS Integers, Sequences, FiniteSets, TLC

VARIABLES
    tx,              \* SigHashCache.tx : the transaction the cache reads
    hash_prevouts,   \* SigHashCache.hash_prevouts  : Option<sha256d::Hash>
    hash_sequence,   \* SigHashCache.hash_sequence  : Option<sha256d::Hash>
    hash_outputs,    \* SigHashCache.hash_outputs   : Option<sha256d::Hash>
    hash_issuances,  \* SigHashCache.hash_issuances : Option<sha256d::Hash>
    call,            \* the last method called on the cache, with its arguments
    ret,             \* what that call returned / wrote
    traversed,       \* the digests whose closure ran (inputs/outputs walked) in that call
    op,              \* commitment component: the operation applied and its input
    res              \* commitment component: its result

vars == <<tx, hash_prevouts, hash_sequence, hash_outputs, hash_issuances,
          call, ret, traversed, op, res>>

sighashVars == <<tx, hash_prevouts, hash_sequence, hash_outputs, hash_issuances,
                 call, ret, traversed>>

(***************************************************************************)
(* Bounds of the model.                                                    *)
(***************************************************************************)
\* longest commitment body drawn as an input (the code requires exactly 32)
MaxBody == 33
\* most inputs / outputs of a transaction; input_index is drawn from
\* 0..MaxInputs, so one index past the inputs of every transaction is tried
MaxInputs == 2
MaxOutputs == 2

(***************************************************************************)
(*                    confidential.rs : commitments                        *)
(***************************************************************************)
\* `commitment.len() != 32`
BodyLen == 32

Byte == 0..255

\* the three invocations of impl_confidential_commitment!
Names == {"AssetCommitment", "ValueCommitment", "NonceCommitment"}

prefixA(name) ==
    CASE name = "AssetCommitment" -> 10
      [] name = "ValueCommitment" -> 8
      [] name = "NonceCommitment" -> 2

prefixB(name) ==
    CASE name = "AssetCommitment" -> 11
      [] name = "ValueCommitment" -> 9
      [] name = "NonceCommitment" -> 3

\* Result values. The fields are named apart so that results of different
\* shapes compare unequal.
Pending == [kind |-> "Pending"]
Panic == [kind |-> "Panic"]
ParseFailed(m) == [kind |-> "Err", error |-> "ParseFailed", msg |-> m]
InvalidConfidentialPrefix(t) ==
    [kind |-> "Err", error |-> "InvalidConfidentialPrefix", tag |-> t]
IoError == [kind |-> "Err", error |-> "Io", io |-> "UnexpectedEof"]
Custom(m) == [kind |-> "Err", error |-> "Custom", custom |-> m]
Commit(name, b) == [kind |-> "Ok", name |-> name, bytes |-> b]

LengthError == ParseFailed("commitments must be 32 bytes long")

is_valid_prefix_anyTag(name, tag) == tag \in Byte

is_valid_prefix(name, tag) == tag = prefixA(name) \/ tag = prefixB(name)

new_tagFirst(name, tag, commitment) ==
    IF ~is_valid_prefix(name, tag) THEN InvalidConfidentialPrefix(tag)
    ELSE IF Len(commitment) # BodyLen THEN LengthError
    ELSE Commit(name, [i \in 1..(BodyLen + 1) |->
                          IF i = 1 THEN tag ELSE commitment[i - 1]])

new(name, tag, commitment) ==
    IF Len(commitment) # BodyLen THEN LengthError
    ELSE IF ~is_valid_prefix(name, tag) THEN InvalidConfidentialPrefix(tag)
    ELSE Commit(name, [i \in 1..(BodyLen + 1) |->
                          IF i = 1 THEN tag ELSE commitment[i - 1]])

from_slice_keepTag(name, bytes) ==
    IF Len(bytes) = 0 THEN Panic
    ELSE new(name, bytes[1], SubSeq(bytes, 1, Len(bytes) - 1))

\* bytes[0] aborts on an empty slice (index out of bounds)
from_slice(name, bytes) ==
    IF Len(bytes) = 0 THEN Panic
    ELSE new(name, bytes[1], SubSeq(bytes, 2, Len(bytes)))

commitment(c) == c.bytes

encoded_length(c) == BodyLen + 1

\* "{:02x}" of every byte, in order
HexDigits == <<"0", "1", "2", "3", "4", "5", "6", "7",
               "8", "9", "a", "b", "c", "d", "e", "f">>

ToHex(bytes) ==
    [i \in 1..(2 * Len(bytes)) |->
        LET b == bytes[(i + 1) \div 2]
        IN  IF i % 2 = 1 THEN HexDigits[(b \div 16) + 1]
                         ELSE HexDigits[(b % 16) + 1]]

fmt(c) == ToHex(c.bytes)

\* Vec::<u8>::from_hex : an odd number of digits or a character that is no
\* hex digit is an error, otherwise each pair of digits is one byte
IsHexDigit(ch) == \E k \in 1..16 : HexDigits[k] = ch
HexVal(ch) == (CHOOSE k \in 1..16 : HexDigits[k] = ch) - 1
HexError == [kind |-> "HexError"]
vec_from_hex(hex) ==
    IF Len(hex) % 2 = 1 \/ \E i \in 1..Len(hex) : ~IsHexDigit(hex[i])
    THEN HexError
    ELSE [kind |-> "Vec",
          bytes |-> [i \in 1..(Len(hex) \div 2) |->
                        16 * HexVal(hex[2 * i - 1]) + HexVal(hex[2 * i])]]

from_hex(name, hex) ==
    LET v == vec_from_hex(hex)
    IN  IF v.kind = "HexError" THEN ParseFailed("failed to parse as hex")
        ELSE from_slice(name, v.bytes)

\* Encodable: the 33 bytes, verbatim
consensus_encode(c) == c.bytes

\* Decodable: <[u8; 33]>::consensus_decode fails when the stream holds fewer
\* than 33 bytes, then new(bytes[0], &bytes[1..])
consensus_decode(name, d) ==
    IF Len(d) < BodyLen + 1 THEN IoError
    ELSE new(name, d[1], SubSeq(d, 2, BodyLen + 1))

\* serde data model: a sequence with a declared length and its elements; an
\* element is a u8 or a sequence of u8
ElemU8(b) == [kind |-> "u8", u8 |-> b]
ElemSeq(s) == [kind |-> "seq", seq |-> s]
SerSeq(n, es) == [kind |-> "Ser", len |-> n, elems |-> es]

\* s.serialize_seq(Some(33)); seq.serialize_element(self.0.as_ref()); seq.end()
serialize(c) == SerSeq(BodyLen + 1, <<ElemSeq(c.bytes)>>)

\* CommitVisitor::visit_seq
deserialize(name, s) ==
    IF Len(s.elems) = 0 THEN Custom("missing prefix")
    ELSE IF s.elems[1].kind # "u8" THEN Custom("invalid type")
    ELSE LET prefix == s.elems[1].u8
         IN  IF prefix # prefixA(name) /\ prefix # prefixB(name)
             THEN Custom("missing commitment")
             ELSE IF Len(s.elems) < 2 THEN Custom("missing commitment")
             ELSE IF s.elems[2].kind # "seq" THEN Custom("invalid type")
             ELSE IF Len(s.elems[2].seq) # BodyLen THEN Custom("invalid length")
             ELSE LET r == new(name, prefix, s.elems[2].seq)
                  IN  IF r.kind = "Ok" THEN r ELSE Custom("new failed")


(***************************************************************************)
(*                      bip143.rs : SigHashCache                           *)
(***************************************************************************)
\* What a writer receives: one chunk per consensus_encode call. A chunk is a
\* byte string or a 32-byte sha256d digest, kept symbolic: [hash |-> data]
\* stands for the digest of data, and distinct data have distinct digests,
\* none of them the all-zero string.
Bytes(b) == [bytes |-> b]
IsBytes(ch) == DOMAIN ch = {"bytes"}

\* adjacent byte strings written to an engine are one byte string to it
RECURSIVE Flatten(_)
Flatten(w) ==
    IF Len(w) < 2 THEN w
    ELSE LET rest == Flatten(Tail(w))
         IN  IF IsBytes(w[1]) /\ IsBytes(rest[1])
             THEN <<Bytes(w[1].bytes \o rest[1].bytes)>> \o Tail(rest)
             ELSE <<w[1]>> \o rest

\* sha256d::Hash::from_engine / SigHash::from_engine
from_engine(enc) == [hash |-> Flatten(enc)]

HashLen == 32
\* sha256d::Hash::default()
zero_hash == Bytes([i \in 1..HashLen |-> 0])

\* consensus encodings of the primitives (little endian, fixed width); the
\* numbers drawn stay below 2^31, so the bytes above the fourth are zero
LE(n, w) == [i \in 1..w |-> IF i > 4 THEN 0 ELSE (n \div (256 ^ (i - 1))) % 256]
enc_u8(n) == Bytes(LE(n, 1))
enc_u32(n) == Bytes(LE(n, 4))
enc_u64(n) == Bytes(LE(n, 8))
\* OutPoint: the txid, then the output index
enc_outpoint(o) == Bytes(o.txid \o LE(o.vout, 4))
\* Script: length prefix (one byte below 253), then the bytes
enc_script(sc) == Bytes(<<Len(sc)>> \o sc)
\* AssetIssuance and TxOut are carried as their consensus encoding
enc_issuance(a) == Bytes(a.encoded)
enc_txout(o) == Bytes(o.encoded)

\* TxIn::has_issuance
has_issuance(txin) == ~txin.asset_issuance.null

\* SigHashType, its split into base mode and flag, and its u32 form
SigHashTypes == {"All", "None", "Single", "AllPlusAnyoneCanPay",
                 "NonePlusAnyoneCanPay", "SinglePlusAnyoneCanPay"}

split_anyonecanpay_flag(t) ==
    CASE t = "All" -> <<"All", FALSE>>
      [] t = "None" -> <<"None", FALSE>>
      [] t = "Single" -> <<"Single", FALSE>>
      [] t = "AllPlusAnyoneCanPay" -> <<"All", TRUE>>
      [] t = "NonePlusAnyoneCanPay" -> <<"None", TRUE>>
      [] t = "SinglePlusAnyoneCanPay" -> <<"Single", TRUE>>

as_u32(t) ==
    CASE t = "All" -> 1
      [] t = "None" -> 2
      [] t = "Single" -> 3
      [] t = "AllPlusAnyoneCanPay" -> 129
      [] t = "NonePlusAnyoneCanPay" -> 130
      [] t = "SinglePlusAnyoneCanPay" -> 131

\* Option<sha256d::Hash>
None == [kind |-> "None"]
Some(h) == [kind |-> "Some", v |-> h]

\* the four memo slots of a SigHashCache
Slots == {"hash_prevouts", "hash_sequence", "hash_outputs", "hash_issuances"}
Cache == [hash_prevouts |-> hash_prevouts, hash_sequence |-> hash_sequence,
          hash_outputs |-> hash_outputs, hash_issuances |-> hash_issuances]

\* SigHashCache::new
new_cache ==
    [hash_prevouts |-> None, hash_sequence |-> None,
     hash_outputs |-> None, hash_issuances |-> None]

\* what each closure feeds its engine: one write per input / output, in order
prevouts_engine(t) ==
    [i \in 1..Len(t.input) |-> enc_outpoint(t.input[i].previous_output)]
sequence_engine(t) ==
    [i \in 1..Len(t.input) |-> enc_u32(t.input[i].sequence)]
issuances_engine(t) ==
    [i \in 1..Len(t.input) |->
        IF has_issuance(t.input[i]) THEN enc_issuance(t.input[i].asset_issuance)
                                    ELSE enc_u8(0)]
outputs_engine(t) ==
    [i \in 1..Len(t.output) |-> enc_txout(t.output[i])]

\* a method's outcome: the cache after it, the digest returned, and the
\* slots whose closure ran
Outcome(c, v, w) == [cache |-> c, value |-> v, walked |-> w]

get_or_insert_with_overwrite(c, slot, engine) ==
    Outcome([c EXCEPT ![slot] = Some(from_engine(engine))], from_engine(engine), {slot})

\* Option::get_or_insert_with : the closure runs only on an empty slot
get_or_insert_with(c, slot, engine) ==
    IF c[slot] = None
    THEN Outcome([c EXCEPT ![slot] = Some(from_engine(engine))],
                 from_engine(engine), {slot})
    ELSE Outcome(c, c[slot].v, {})

hash_prevouts_fn(c, t) == get_or_insert_with(c, "hash_prevouts", prevouts_engine(t))
hash_sequence_fn(c, t) == get_or_insert_with(c, "hash_sequence", sequence_engine(t))
hash_issuances_fn(c, t) == get_or_insert_with(c, "hash_issuances", issuances_engine(t))
hash_outputs_fn(c, t) == get_or_insert_with(c, "hash_outputs", outputs_engine(t))

single_output_cached(c, t, input_index) ==
    get_or_insert_with(c, "hash_outputs", <<enc_txout(t.output[input_index + 1])>>)

\* the uncached digest of output[input_index] alone (SigHashType::Single)
single_output(c, t, input_index) ==
    Outcome(c, from_engine(<<enc_txout(t.output[input_index + 1])>>), {})

\* the hashPrevouts field
prevouts_field_always(c, t, sighash, anyone_can_pay) == hash_prevouts_fn(c, t)

prevouts_field(c, t, sighash, anyone_can_pay) ==
    IF ~anyone_can_pay THEN hash_prevouts_fn(c, t)
    ELSE Outcome(c, zero_hash, {})

\* the hashSequence field
sequence_field_ungated(c, t, sighash, anyone_can_pay) ==
    IF ~anyone_can_pay THEN hash_sequence_fn(c, t)
    ELSE Outcome(c, zero_hash, {})

sequence_field(c, t, sighash, anyone_can_pay) ==
    IF ~anyone_can_pay /\ sighash # "Single" /\ sighash # "None"
    THEN hash_sequence_fn(c, t)
    ELSE Outcome(c, zero_hash, {})

\* the hashIssuances field (Elements)
issuances_field(c, t, sighash, anyone_can_pay) ==
    IF ~anyone_can_pay THEN hash_issuances_fn(c, t)
    ELSE Outcome(c, zero_hash, {})

\* the input specific values
input_fields(txin, script_code, value) ==
    <<enc_outpoint(txin.previous_output), enc_script(script_code),
      enc_u64(value), enc_u32(txin.sequence)>>
        \o (IF has_issuance(txin) THEN <<enc_issuance(txin.asset_issuance)>> ELSE <<>>)

outputs_field_lastOutput(c, t, sighash, input_index) ==
    IF sighash # "Single" /\ sighash # "None" THEN hash_outputs_fn(c, t)
    ELSE IF sighash = "Single" /\ Len(t.output) > 0
    THEN single_output(c, t, IF input_index < Len(t.output) THEN input_index
                             ELSE Len(t.output) - 1)
    ELSE Outcome(c, zero_hash, {})

\* the hashOutputs field
outputs_field(c, t, sighash, input_index) ==
    IF sighash # "Single" /\ sighash # "None" THEN hash_outputs_fn(c, t)
    ELSE IF sighash = "Single" /\ input_index < Len(t.output)
    THEN single_output(c, t, input_index)
    ELSE Outcome(c, zero_hash, {})

Written(k, c, w, walked) == [kind |-> k, cache |-> c, written |-> w, walked |-> walked]

\* encode_signing_data_to into a writer that accepts every write. input_index
\* counts from 0; self.tx.input[input_index] aborts when it is out of range,
\* after the first four fields were written.
encode_signing_data_to(c, t, input_index, script_code, value, sighash_type) ==
    LET sighash == split_anyonecanpay_flag(sighash_type)[1]
        anyone_can_pay == split_anyonecanpay_flag(sighash_type)[2]
        p == prevouts_field(c, t, sighash, anyone_can_pay)
        s == sequence_field(p.cache, t, sighash, anyone_can_pay)
        i == issuances_field(s.cache, t, sighash, anyone_can_pay)
        head == <<enc_u32(t.version), p.value, s.value, i.value>>
    IN  IF input_index >= Len(t.input)
        THEN Written("Panic", i.cache, head, p.walked \cup s.walked \cup i.walked)
        ELSE
        LET o == outputs_field(i.cache, t, sighash, input_index)
        IN  Written("Ok", o.cache,
                    head \o input_fields(t.input[input_index + 1], script_code, value)
                         \o <<o.value, enc_u32(t.lock_time), enc_u32(as_u32(sighash_type))>>,
                    p.walked \cup s.walked \cup i.walked \cup o.walked)

\* signature_hash: the same writes into a SigHash engine, then its digest
signature_hash(c, t, input_index, script_code, value, sighash_type) ==
    LET e == encode_signing_data_to(c, t, input_index, script_code, value, sighash_type)
    IN  [kind |-> IF e.kind = "Panic" THEN "Panic" ELSE "Hash",
         cache |-> e.cache, written |-> e.written,
         value |-> from_engine(e.written), walked |-> e.walked]

(***************************************************************************)
(* The inputs the commitment operations are applied to.                    *)
(***************************************************************************)
SampleTags == {0, 1, 2, 3, 4, 8, 9, 10, 11, 12, 42, 255}

Ones(n) == [i \in 1..n |-> 1]
Ramp(n) == [i \in 1..n |-> i]
Bodies == {Ones(n) : n \in 0..MaxBody} \cup {Ramp(n) : n \in 0..MaxBody}
Slices == {<<>>} \cup {<<t>> \o b : t \in SampleTags, b \in Bodies}
ShortSlices == {<<>>} \cup {<<t>> \o Ones(n) : t \in {8, 42}, n \in {0, 1, BodyLen - 1, BodyLen}}
HexStrings ==
    {ToHex(s) : s \in ShortSlices}
        \cup {SubSeq(ToHex(s), 1, 2 * Len(s) - 1) : s \in ShortSlices \ {<<>>}}
        \cup {ToHex(s) \o <<"g", "0">> : s \in ShortSlices}
ValidCommitments ==
    {c \in {Commit(n, <<t>> \o b) : n \in Names, t \in SampleTags,
                                     b \in {Ones(BodyLen), Ramp(BodyLen)}} :
        is_valid_prefix(c.name, c.bytes[1])}
Serialized ==
    {serialize(c) : c \in ValidCommitments}
        \cup {SerSeq(2, <<ElemU8(t), ElemSeq(b)>>) : t \in SampleTags, b \in Bodies}
        \cup {SerSeq(1, <<ElemU8(t)>>) : t \in SampleTags}
        \cup {SerSeq(0, <<>>)}

NoSer == SerSeq(0, <<>>)
Op(f, name, tag, bytes, hex, ser) ==
    [f |-> f, name |-> name, tag |-> tag, bytes |-> bytes, hex |-> hex, ser |-> ser]

Ops ==
    {Op("new", n, t, b, <<>>, NoSer) : n \in Names, t \in Byte, b \in Bodies}
        \cup {Op("from_slice", n, 0, s, <<>>, NoSer) : n \in Names, s \in Slices}
        \cup {Op("consensus_decode", n, 0, s, <<>>, NoSer) : n \in Names, s \in Slices}
        \cup {Op("from_hex", n, 0, <<>>, h, NoSer) : n \in Names, h \in HexStrings}
        \cup {Op("deserialize", n, 0, <<>>, <<>>, s) : n \in Names, s \in Serialized}
        \cup {Op(f, c.name, 0, c.bytes, <<>>, NoSer) :
                 f \in {"serialize", "consensus_encode", "fmt", "commitment"},
                 c \in ValidCommitments}

\* the sighash component is idle while the commitment operations run
NoTransaction == [version |-> 0, input |-> <<>>, output |-> <<>>, lock_time |-> 0]
NoCall == [f |-> "none"]

CommitInit ==
    /\ op \in Ops
    /\ res = Pending
    /\ tx = NoTransaction
    /\ hash_prevouts = None /\ hash_sequence = None
    /\ hash_outputs = None /\ hash_issuances = None
    /\ call = NoCall /\ ret = Pending /\ traversed = {}

New ==
    /\ op.f = "new" /\ res = Pending
    /\ res' = new(op.name, op.tag, op.bytes)
    /\ UNCHANGED <<op, sighashVars>>

FromSlice ==
    /\ op.f = "from_slice" /\ res = Pending
    /\ res' = from_slice(op.name, op.bytes)
    /\ UNCHANGED <<op, sighashVars>>

FromHex ==
    /\ op.f = "from_hex" /\ res = Pending
    /\ res' = from_hex(op.name, op.hex)
    /\ UNCHANGED <<op, sighashVars>>

ConsensusDecode ==
    /\ op.f = "consensus_decode" /\ res = Pending
    /\ res' = consensus_decode(op.name, op.bytes)
    /\ UNCHANGED <<op, sighashVars>>

ConsensusEncode ==
    /\ op.f = "consensus_encode" /\ res = Pending
    /\ res' = [kind |-> "Bytes", written |-> consensus_encode(Commit(op.name, op.bytes))]
    /\ UNCHANGED <<op, sighashVars>>

GetCommitment ==
    /\ op.f = "commitment" /\ res = Pending
    /\ res' = [kind |-> "Bytes", written |-> commitment(Commit(op.name, op.bytes))]
    /\ UNCHANGED <<op, sighashVars>>

Display ==
    /\ op.f = "fmt" /\ res = Pending
    /\ res' = [kind |-> "Hex", hex |-> fmt(Commit(op.name, op.bytes))]
    /\ UNCHANGED <<op, sighashVars>>

Serialize ==
    /\ op.f = "serialize" /\ res = Pending
    /\ res' = serialize(Commit(op.name, op.bytes))
    /\ UNCHANGED <<op, sighashVars>>

Deserialize ==
    /\ op.f = "deserialize" /\ res = Pending
    /\ res' = deserialize(op.name, op.ser)
    /\ UNCHANGED <<op, sighashVars>>

CommitNext ==
    \/ New
    \/ FromSlice
    \/ FromHex
    \/ ConsensusDecode
    \/ ConsensusEncode
    \/ GetCommitment
    \/ Display
    \/ Serialize
    \/ Deserialize

CommitSpec == CommitInit /\ [][CommitNext]_vars

(***************************************************************************)
(* Properties of the commitment types, checked under CommitSpec.           *)
(***************************************************************************)
\* the tag pairs as the specification states them
ClaimPair(name) ==
    CASE name = "AssetCommitment" -> {10, 11}
      [] name = "ValueCommitment" -> {8, 9}
      [] name = "NonceCommitment" -> {2, 3}

\* C2: new(tag, body) fails with the length error when the body is not 32
\* bytes long, otherwise fails with InvalidConfidentialPrefix(tag) when the tag
\* is not one of the variant's two values, and otherwise succeeds with the 33
\* bytes tag ++ body; nothing but a valid tag with a 32-byte body is accepted.
C2_NewValidates ==
    (op.f = "new" /\ res # Pending) =>
        /\ Len(op.bytes) # 32 => res = LengthError
        /\ (Len(op.bytes) = 32 /\ op.tag \notin ClaimPair(op.name))
              => res = InvalidConfidentialPrefix(op.tag)
        /\ (Len(op.bytes) = 32 /\ op.tag \in ClaimPair(op.name))
              => (res = Commit(op.name, <<op.tag>> \o op.bytes) /\ Len(res.bytes) = 33)
        /\ res.kind = "Ok" => (Len(op.bytes) = 32 /\ op.tag \in ClaimPair(op.name))

C2_Witness ==
    /\ op.f = "new" /\ op.name = "ValueCommitment"
    /\ op.tag = 42 /\ Len(op.bytes) = 32
    /\ res = InvalidConfidentialPrefix(42)

\* the bytes that reach from_slice in a from_slice or from_hex call
Reaches(o) ==
    CASE o.f = "from_slice" -> [kind |-> "Vec", bytes |-> o.bytes]
      [] o.f = "from_hex" -> vec_from_hex(o.hex)
      [] OTHER -> HexError

\* C6: from_slice of fewer than 33 bytes, the empty sequence included, called
\* directly or through from_hex, returns the length error as an error value.
C6_ShortSliceIsLengthError ==
    (op.f \in {"from_slice", "from_hex"} /\ res # Pending
        /\ Reaches(op).kind = "Vec" /\ Len(Reaches(op).bytes) < 33)
    => res = LengthError

\* how a construction path answers for another variant on the same input
Construct(o, name) ==
    CASE o.f = "new" -> new(name, o.tag, o.bytes)
      [] o.f = "from_slice" -> from_slice(name, o.bytes)
      [] o.f = "consensus_decode" -> consensus_decode(name, o.bytes)
      [] OTHER -> Pending

HasFirstByte(o) == o.f = "new" \/ Len(o.bytes) > 0
FirstByte(o) == IF o.f = "new" THEN o.tag ELSE o.bytes[1]

\* C7: on new, from_slice and consensus_decode, an input one variant accepts
\* is accepted by no other variant, and an input that begins with a valid tag
\* of another variant is rejected.
C7_NoCrossVariantAcceptance ==
    (op.f \in {"new", "from_slice", "consensus_decode"} /\ res # Pending) =>
        /\ res.kind = "Ok" =>
              \A n \in Names \ {op.name} : Construct(op, n).kind # "Ok"
        /\ \A n \in Names \ {op.name} :
              (HasFirstByte(op) /\ FirstByte(op) \in ClaimPair(n)) => res.kind # "Ok"

C7_Witness ==
    /\ op.f = "consensus_decode" /\ op.name = "AssetCommitment"
    /\ Len(op.bytes) = 33 /\ op.bytes[1] = 8
    /\ res = InvalidConfidentialPrefix(8)
    /\ Construct(op, "ValueCommitment").kind = "Ok"

\* C8: from_slice(commitment(new(tag, body))) equals new(tag, body) for every
\* valid tag and 32-byte body, and with the first byte replaced by a byte
\* outside the variant's pair from_slice returns an error.
C8_RoundTrip ==
    (op.f = "new" /\ res.kind = "Ok") =>
        /\ from_slice(op.name, commitment(res)) = res
        /\ \A b \in Byte \ ClaimPair(op.name) :
              from_slice(op.name, [commitment(res) EXCEPT ![1] = b]).kind = "Err"

C8_Witness ==
    /\ op.f = "new" /\ op.name = "NonceCommitment" /\ op.tag = 3
    /\ op.bytes = Ramp(32)
    /\ res.kind = "Ok" /\ commitment(res) = <<3>> \o Ramp(32)

\* C9: serialization emits the 2-element sequence (tag, 32-byte body), and
\* deserializing what serialization emitted gives the commitment back.
C9_SerdeRoundTrip ==
    (op.f = "serialize" /\ res # Pending) =>
        /\ Len(res.elems) = 2
        /\ res.elems[1] = ElemU8(op.bytes[1])
        /\ res.elems[2] = ElemSeq(SubSeq(op.bytes, 2, 33))
        /\ deserialize(op.name, res) = Commit(op.name, op.bytes)

(***************************************************************************)
(* The sighash component: one cache on one transaction, methods called in  *)
(* any order. No method of SigHashCache assigns tx.                        *)
(***************************************************************************)
TxInAt(k, issuing) ==
    [previous_output |-> [txid |-> <<k, 170>>, vout |-> k - 1],
     sequence |-> 16777215 - k,
     asset_issuance |-> IF issuing THEN [null |-> FALSE, encoded |-> <<k, 7>>]
                                   ELSE [null |-> TRUE, encoded |-> <<>>]]
TxOutAt(k) == [encoded |-> <<k, k + 1>>]

Transactions ==
    {[version |-> 2,
      input |-> [k \in 1..n |-> TxInAt(k, k \in F)],
      output |-> [k \in 1..m |-> TxOutAt(k)],
      lock_time |-> 0] :
        n \in 0..MaxInputs, F \in {{}, {1}}, m \in 0..MaxOutputs}

Scripts == {<<81>>}
Values == {100000}
NoOp == Op("none", "none", 0, <<>>, <<>>, NoSer)

Init ==
    /\ tx \in Transactions
    /\ hash_prevouts = None /\ hash_sequence = None
    /\ hash_outputs = None /\ hash_issuances = None
    /\ call = NoCall /\ ret = Pending /\ traversed = {}
    /\ op = NoOp /\ res = Pending

SetCache(c) ==
    /\ hash_prevouts' = c.hash_prevouts
    /\ hash_sequence' = c.hash_sequence
    /\ hash_outputs' = c.hash_outputs
    /\ hash_issuances' = c.hash_issuances

Digest(f, r) ==
    /\ SetCache(r.cache)
    /\ call' = [f |-> f]
    /\ ret' = [kind |-> "Hash", value |-> r.value]
    /\ traversed' = r.walked
    /\ UNCHANGED <<tx, op, res>>

HashPrevouts == Digest("hash_prevouts", hash_prevouts_fn(Cache, tx))
HashSequence == Digest("hash_sequence", hash_sequence_fn(Cache, tx))
HashIssuances == Digest("hash_issuances", hash_issuances_fn(Cache, tx))
HashOutputs == Digest("hash_outputs", hash_outputs_fn(Cache, tx))

Args(f, i, sc, v, t) ==
    [f |-> f, input_index |-> i, script_code |-> sc, value |-> v, sighash_type |-> t]

EncodeSigningDataTo ==
    \E i \in 0..MaxInputs, sc \in Scripts, v \in Values, t \in SigHashTypes :
        \E r \in {encode_signing_data_to(Cache, tx, i, sc, v, t)} :
            /\ SetCache(r.cache)
            /\ call' = Args("encode_signing_data_to", i, sc, v, t)
            /\ ret' = [kind |-> r.kind, written |-> r.written]
            /\ traversed' = r.walked
            /\ UNCHANGED <<tx, op, res>>

SignatureHash ==
    \E i \in 0..MaxInputs, sc \in Scripts, v \in Values, t \in SigHashTypes :
        \E r \in {signature_hash(Cache, tx, i, sc, v, t)} :
            /\ SetCache(r.cache)
            /\ call' = Args("signature_hash", i, sc, v, t)
            /\ ret' = [kind |-> r.kind, written |-> r.written, value |-> r.value]
            /\ traversed' = r.walked
            /\ UNCHANGED <<tx, op, res>>

Next ==
    \/ HashPrevouts
    \/ HashSequence
    \/ HashIssuances
    \/ HashOutputs
    \/ EncodeSigningDataTo
    \/ SignatureHash

Spec == Init /\ [][Next]_vars

(***************************************************************************)
(* Properties of SigHashCache, checked under Spec.                         *)
(***************************************************************************)
IsSigning(c) == c.f \in {"encode_signing_data_to", "signature_hash"}
Base(c) == split_anyonecanpay_flag(c.sighash_type)[1]
Acp(c) == split_anyonecanpay_flag(c.sighash_type)[2]
Zero32 == Bytes([k \in 1..32 |-> 0])

\* the digests of the transaction, computed without any cache
RealPrevouts == from_engine(prevouts_engine(tx))
RealSequence == from_engine(sequence_engine(tx))
RealIssuances == from_engine(issuances_engine(tx))
RealOutputs == from_engine(outputs_engine(tx))
RealSingle(k) == from_engine(<<enc_txout(tx.output[k + 1])>>)

\* the position of the output field: third from the end
OutputField(w) == w[Len(w) - 2]

C1_Layout(c) ==
    LET txin == tx.input[c.input_index + 1]
    IN  <<enc_u32(tx.version),
          IF ~Acp(c) THEN RealPrevouts ELSE Zero32,
          IF ~Acp(c) /\ Base(c) \notin {"Single", "None"} THEN RealSequence ELSE Zero32,
          IF ~Acp(c) THEN RealIssuances ELSE Zero32,
          enc_outpoint(txin.previous_output),
          enc_script(c.script_code),
          enc_u64(c.value),
          enc_u32(txin.sequence)>>
        \o (IF has_issuance(txin) THEN <<enc_issuance(txin.asset_issuance)>> ELSE <<>>)
        \o <<IF Base(c) \notin {"Single", "None"} THEN RealOutputs
             ELSE IF Base(c) = "Single" /\ c.input_index < Len(tx.output)
             THEN RealSingle(c.input_index)
             ELSE Zero32,
             enc_u32(tx.lock_time),
             enc_u32(as_u32(c.sighash_type))>>

\* C1: for every valid input_index the bytes written (and hashed by
\* signature_hash) are version, prevouts field, sequence field, issuances
\* field, this input's outpoint, script_code, value, this input's sequence,
\* its issuance record iff it has one, the output field, lock_time and the
\* sighash_type, in this order, each field chosen as the claim states.
C1_PreimageLayout ==
    (IsSigning(call) /\ call.input_index < Len(tx.input)) =>
        /\ ret.kind \in {"Ok", "Hash"}
        /\ ret.written = C1_Layout(call)
        /\ call.f = "signature_hash" => ret.value = from_engine(C1_Layout(call))

C1_Witness ==
    /\ call.f = "encode_signing_data_to" /\ call.sighash_type = "Single"
    /\ call.input_index = 0 /\ Len(tx.input) = 2 /\ Len(tx.output) = 2
    /\ has_issuance(tx.input[1])
    /\ ret.kind = "Ok" /\ Len(ret.written) = 12
    /\ ret.written[3] = Zero32 /\ ret.written[4] = RealIssuances
    /\ ret.written[10] = RealSingle(0)

\* C3 as stated: with base mode SINGLE and any input_index >= the number of
\* outputs the call completes without abort and the output field is 32 zero
\* bytes.
C3_AnyIndexZeroFill ==
    (IsSigning(call) /\ Base(call) = "Single" /\ call.input_index >= Len(tx.output))
    => (ret.kind # "Panic" /\ OutputField(ret.written) = Zero32)

\* C3, amended: with base mode SINGLE and an input_index that is a valid input
\* index (below the number of inputs) and >= the number of outputs, the call
\* completes without error or abort and the output field is 32 zero bytes,
\* the hash of no output.
C3_ValidIndexZeroFill ==
    (IsSigning(call) /\ Base(call) = "Single"
        /\ call.input_index >= Len(tx.output) /\ call.input_index < Len(tx.input))
    => /\ ret.kind \in {"Ok", "Hash"}
       /\ OutputField(ret.written) = Zero32
       /\ \A k \in 0..(Len(tx.output) - 1) : OutputField(ret.written) # RealSingle(k)

C3_Witness ==
    /\ call.f = "signature_hash" /\ call.sighash_type = "Single"
    /\ call.input_index = 1 /\ Len(tx.input) = 2 /\ Len(tx.output) = 1
    /\ ret.kind = "Hash" /\ OutputField(ret.written) = Zero32

\* two calls of the same method that differ in the anyone_can_pay flag only
Toggled(a, b) ==
    /\ IsSigning(a) /\ IsSigning(b) /\ a.f = b.f
    /\ a.input_index = b.input_index /\ a.script_code = b.script_code
    /\ a.value = b.value /\ Base(a) = Base(b)
    /\ ~Acp(a) /\ Acp(b)

\* the claimed relation between the preimage without the flag (a) and with it (b)
C4_OnlyDigestsChange(a, b) ==
    /\ a[2] = RealPrevouts /\ b[2] = Zero32
    /\ a[3] = RealSequence /\ b[3] = Zero32
    /\ a[4] = RealIssuances /\ b[4] = Zero32
    /\ Len(a) = Len(b)
    /\ \A k \in (1..Len(a)) \ {2, 3, 4} : a[k] = b[k]

\* C4 as stated: toggling anyone_can_pay turns the prevouts, sequence and
\* issuances fields from their real digests into 32 zero bytes and changes no
\* other byte of the preimage.
C4_ToggleChangesOnlyDigests ==
    [][ /\ (Toggled(call, call') /\ ret.kind # "Panic" /\ ret'.kind # "Panic")
            => C4_OnlyDigestsChange(ret.written, ret'.written)
        /\ (Toggled(call', call) /\ ret.kind # "Panic" /\ ret'.kind # "Panic")
            => C4_OnlyDigestsChange(ret'.written, ret.written) ]_vars

C4_DigestsAndTypeChange(ca, a, cb, b) ==
    /\ a[2] = RealPrevouts /\ b[2] = Zero32
    /\ a[3] = (IF Base(ca) = "All" THEN RealSequence ELSE Zero32) /\ b[3] = Zero32
    /\ a[4] = RealIssuances /\ b[4] = Zero32
    /\ Len(a) = Len(b)
    /\ \A k \in (1..(Len(a) - 1)) \ {2, 3, 4} : a[k] = b[k]
    /\ a[Len(a)] = enc_u32(as_u32(ca.sighash_type))
    /\ b[Len(b)] = enc_u32(as_u32(cb.sighash_type))
    /\ a[Len(a)] # b[Len(b)]

\* C4, amended: toggling anyone_can_pay turns the prevouts and issuances
\* fields from their real digests into 32 zero bytes, and the sequence field
\* from its real digest into 32 zero bytes when the base mode is ALL (with
\* SINGLE or NONE it is 32 zero bytes either way); the trailing sighash_type
\* field changes with the flag; every other field is unchanged.
C4_ToggleChangesDigestsAndType ==
    [][ /\ (Toggled(call, call') /\ ret.kind # "Panic" /\ ret'.kind # "Panic")
            => C4_DigestsAndTypeChange(call, ret.written, call', ret'.written)
        /\ (Toggled(call', call) /\ ret.kind # "Panic" /\ ret'.kind # "Panic")
            => C4_DigestsAndTypeChange(call', ret'.written, call, ret.written) ]_vars

C4_Witness ==
    /\ call.f = "encode_signing_data_to" /\ call.sighash_type = "SinglePlusAnyoneCanPay"
    /\ call.input_index = 0 /\ ret.kind = "Ok"
    /\ hash_prevouts = Some(RealPrevouts) /\ hash_issuances = Some(RealIssuances)
    /\ hash_sequence = None
    /\ ret.written[2] = Zero32 /\ ret.written[3] = Zero32 /\ ret.written[4] = Zero32

\* C5: a populated slot is never cleared or overwritten, a call made while
\* the slot is populated returns the stored value and does not walk the
\* inputs or outputs for it, and two calls of one digest method in a row
\* return the same digest.
C5_SlotsSetOnce ==
    [][ /\ \A s \in Slots :
              Cache[s] # None => (Cache'[s] = Cache[s] /\ s \notin traversed')
        /\ \A s \in Slots :
              (call'.f = s /\ Cache[s] # None) => ret'.value = Cache[s].v
        /\ \A s \in Slots :
              (call.f = s /\ call'.f = s) => ret'.value = ret.value ]_vars

C5_Witness ==
    /\ call.f = "hash_outputs" /\ traversed = {}
    /\ hash_outputs = Some(RealOutputs) /\ ret.value = RealOutputs
    /\ Len(tx.output) = 2

\* the same call on a cache just created
Fresh(c) ==
    IF c.f = "encode_signing_data_to"
    THEN encode_signing_data_to(new_cache, tx, c.input_index, c.script_code,
                                c.value, c.sighash_type)
    ELSE signature_hash(new_cache, tx, c.input_index, c.script_code,
                        c.value, c.sighash_type)

\* C10: whatever calls came before, a signing call writes (and returns) what
\* it would on a fresh cache; a SINGLE call for a valid index commits to the
\* output of that index; a call with anyone_can_pay and base mode SINGLE or
\* NONE leaves the four slots as they were.
C10_HistoryIndependent ==
    [][ IsSigning(call') =>
          /\ \A fresh \in {Fresh(call')} :
                /\ ret'.kind = fresh.kind
                /\ ret'.written = fresh.written
                /\ call'.f = "signature_hash" => ret'.value = fresh.value
          /\ (Base(call') = "Single" /\ call'.input_index < Len(tx.output)
                 /\ call'.input_index < Len(tx.input))
              => OutputField(ret'.written) = RealSingle(call'.input_index)
          /\ (Acp(call') /\ Base(call') \in {"Single", "None"}) => Cache' = Cache ]_vars

C10_Witness ==
    /\ call.f = "signature_hash" /\ call.sighash_type = "Single"
    /\ call.input_index = 1 /\ Len(tx.input) = 2 /\ Len(tx.output) = 2
    /\ hash_outputs = Some(RealOutputs) /\ hash_prevouts # None
    /\ hash_sequence # None /\ hash_issuances # None /\ traversed = {}
    /\ ret.kind = "Hash" /\ OutputField(ret.written) = RealSingle(1)

====
